---- MODULE Spec2Model ----
(***************************************************************************)
(* Model of the name resolution of hyperpuzzle's builders (iter_autonamed, *)
(* warn_on_duplicates), of the twist algebra of ndpuzzle's PuzzleType      *)
(* (reverse_twist, canonicalize_twist), of the color preferences, puzzle   *)
(* type handles, builder locks and axis layers, and of LuaNdim,            *)
(* ViewPreferences::interpolate and the locks of build_view_section.       *)
(* Each component has its own variables, initial predicate and next-state  *)
(* relation; the other components stay idle under its specification.       *)
(***************************************************************************)
EXTENDS Integers, Sequences, FiniteSets, TLC

(***************************************************************************)
(* Bounds of the naming model.                                             *)
(***************************************************************************)
\* Number of element IDs a naming scheme may hold.
NumIds == 3
\* Longest candidate sequence handed to iter_autonamed.
MaxAuto == 3

IDs == 0 .. (NumIds - 1)
\* Option::None of a HashMap lookup: the ID has no entry.
NONE == "<none>"
\* Strings a user may give as a name, as a display name, and strings the
\* caller may supply as autoname candidates.
UserNames == {"A", "B"}
DisplayNames == {"A"}
Candidates == {"A", "C"}

VARIABLES
    \* NamingScheme: ids_to_names and ids_to_display_names (NONE: no entry)
    names, displays,
    \* the arguments `order` and `autonames` of iter_autonamed
    order, autonames,
    \* where the call and its consumer are:
    \* "start" (not called), "iter" (iterator returned, the consumer may or
    \* may not go on calling next()), "done" (iterator returned None),
    \* "panicked" (expect() failed)
    pc,
    \* reports delivered to warn_fn, in delivery order (the duplicated string)
    warnings,
    \* number of elements taken so far from `order` and from `autonames`
    orderPos, autoPos,
    \* items (id, (name, display)) yielded so far
    out

nameVars == <<names, displays, order, autonames, pc, warnings, orderPos,
              autoPos, out>>

VARIABLES
    \* PuzzleType: the per-transform table read by info(transform), a
    \* function from transform IDs to [axis, reverse, opposite], and the
    \* layer count of each axis
    transform_info, axis_layers,
    \* the twist handed to reverse_twist / canonicalize_twist
    twist,
    \* "idle", "reversed" (reverse_twist returned), "reversed_twice",
    \* "canonical" (canonicalize_twist returned), "canon_panicked"
    tpc,
    \* the twist last returned
    tres

twistVars == <<transform_info, axis_layers, twist, tpc, tres>>

VARIABLES
    \* color_system.list: the names of the colors, in list order
    color_list,
    \* GlobalColorPalette: builtin_colors, custom_colors, builtin_color_sets
    palette,
    \* the ColorScheme handed to
    \* ensure_color_scheme_is_valid_for_color_system: the entries
    \* [key, value] of the IndexMap, in its order
    scheme,
    \* "idle", "once" (the function returned), "twice" (it returned again)
    cpc,
    \* the value last returned
    changed,
    \* scheme, palette and color list as they were when the last call began
    before

colorVars == <<color_list, palette, scheme, cpc, changed, before>>

VARIABLES
    \* the Arc<PuzzleType> allocations: for each slot whether it is free,
    \* alive or dropped, its strong count, the target of its `this` and its
    \* name
    types,
    \* what the calls of create_puzzle_type_from_shapes returned, in call
    \* order
    results,
    \* the last call of arc(): the allocation it was called on and what came
    \* of it
    arc_ret

typeVars == <<types, results, arc_ret>>

VARIABLES
    \* per builder: the number of items its collection holds
    bitems,
    \* per builder: whether its Mutex is locked
    locked,
    \* the builders a mutation is in progress on, the innermost call last
    bstack,
    \* the last mutating call: the builder, whether a mutation was in
    \* progress on that builder when the call was made, and the outcome
    blast

buildVars == <<bitems, locked, bstack, blast>>

VARIABLES
    \* the layers given to an axis under construction: [bottom, top] each,
    \* in the order they were added
    layer_stack,
    \* AxisInfo::layers of the finalized axis
    built_layers,
    \* "building", "built" (the axis was finalized), "rejected" (the build
    \* returned an error)
    lpc

layerVars == <<layer_stack, built_layers, lpc>>

VARIABLES
    \* the last has() / get() asked of the palette: the reference, the two
    \* answers, and the palette as it was when they were asked
    query

queryVars == <<query>>

VARIABLES
    \* ColorSchemePreferences: for each color system id, its entry
    scheme_prefs,
    \* the last call: "get", "get_mut" or "save", its color system, the
    \* preferences before it and the entry it returned
    pref_call,
    \* number of calls made
    pref_n

prefVars == <<scheme_prefs, pref_call, pref_n>>

VARIABLES
    \* the Lua value handed to LuaNdim::from_lua or LuaNdim::try_from
    lua_value,
    \* the Lua global NDIM
    global_ndim,
    \* the calls in progress, outermost first: the function, its argument,
    \* and whether it waits for the call above it
    nstack,
    \* the result on its way to the caller
    nret,
    \* how many times from_lua and get_global were entered, and the deepest
    \* the stack got
    ncalls,
    \* the last try_from: its argument and result
    tried,
    \* "idle", "running", "done"
    npc

ndimVars == <<lua_value, global_ndim, nstack, nret, ncalls, tried, npc>>

VARIABLES
    \* the view preset interpolate is called on (self)
    va,
    \* the other preset (rhs), the parameter t in tenths, and the result of
    \* the last a.interpolate(rhs, t)
    vb, vt, vres,
    \* "idle", "done"
    vpc

viewVars == <<va, vb, vt, vres, vpc>>

VARIABLES
    \* the strings in the two mutexes of build_view_section
    LOADED, NAME,
    \* the guards the running call holds, in the order it took them
    held,
    \* every pair <<m1, m2>> such that m2 was locked while m1 was held
    lock_pairs,
    \* where the call is: "label_cond", "label_eval", "label_body",
    \* "delete", "overwrite", "reset_name", "reset_loaded", "reset_call",
    \* "end" (the frame is built), "deadlocked" (a lock() on a mutex the
    \* call itself holds)
    upc,
    \* which of the four preset labels the loop is at
    label_i,
    \* number of frames built
    frames

uiVars == <<LOADED, NAME, held, lock_pairs, upc, label_i, frames>>

vars ==
    <<nameVars, twistVars, colorVars, typeVars, buildVars, layerVars,
      queryVars, prefVars, ndimVars, viewVars, uiVars>>

\* What the actions of one component leave alone.
notNames ==
    <<twistVars, colorVars, typeVars, buildVars, layerVars, queryVars,
      prefVars, ndimVars, viewVars, uiVars>>
notTwists ==
    <<nameVars, colorVars, typeVars, buildVars, layerVars, queryVars,
      prefVars, ndimVars, viewVars, uiVars>>
notColors ==
    <<nameVars, twistVars, typeVars, buildVars, layerVars, queryVars,
      prefVars, ndimVars, viewVars, uiVars>>
notTypes ==
    <<nameVars, twistVars, colorVars, buildVars, layerVars, queryVars,
      prefVars, ndimVars, viewVars, uiVars>>
notBuilders ==
    <<nameVars, twistVars, colorVars, typeVars, layerVars, queryVars,
      prefVars, ndimVars, viewVars, uiVars>>
notLayers ==
    <<nameVars, twistVars, colorVars, typeVars, buildVars, queryVars,
      prefVars, ndimVars, viewVars, uiVars>>
notQuery ==
    <<nameVars, twistVars, colorVars, typeVars, buildVars, layerVars,
      prefVars, ndimVars, viewVars, uiVars>>
notPrefs ==
    <<nameVars, twistVars, colorVars, typeVars, buildVars, layerVars,
      queryVars, ndimVars, viewVars, uiVars>>
notNdim ==
    <<nameVars, twistVars, colorVars, typeVars, buildVars, layerVars,
      queryVars, prefVars, viewVars, uiVars>>
notViews ==
    <<nameVars, twistVars, colorVars, typeVars, buildVars, layerVars,
      queryVars, prefVars, ndimVars, uiVars>>
notUi ==
    <<nameVars, twistVars, colorVars, typeVars, buildVars, layerVars,
      queryVars, prefVars, ndimVars, viewVars>>

(***************************************************************************)
(* Helpers on sequences.                                                   *)
(***************************************************************************)
Range(s) == {s[i] : i \in DOMAIN s}

SeqsUpTo(S, n) == UNION {[1 .. k -> S] : k \in 0 .. n}

\* The orders handed to iter_autonamed: the prefixes of the ID list taken
\* in ascending and in descending order.  The code reads an ID only as a
\* map key, so every other order of distinct IDs is one of these up to a
\* renaming of the IDs.
Orders ==
    UNION {{[k \in 1 .. m |-> k - 1], [k \in 1 .. m |-> NumIds - k]} :
              m \in 0 .. NumIds}

\* Number of positions of s holding v.
Count(s, v) == Cardinality({i \in DOMAIN s : s[i] = v})

(***************************************************************************)
(* warn_on_duplicates: one report per element already in `seen`.           *)
(***************************************************************************)
RECURSIVE WarnLoop(_, _, _)
WarnLoop(iter, seen, reports) ==
    IF iter = <<>> THEN reports
    ELSE LET it == Head(iter) IN
         IF it \in seen
         THEN WarnLoop(Tail(iter), seen, Append(reports, it))
         ELSE WarnLoop(Tail(iter), seen \cup {it}, reports)

\* Variant: a duplicated string is reported once, however often it recurs.
RECURSIVE WarnOnceLoop(_, _, _)
WarnOnceLoop(iter, seen, reports) ==
    IF iter = <<>> THEN reports
    ELSE LET it == Head(iter) IN
         IF it \in seen /\ it \notin {reports[k] : k \in DOMAIN reports}
         THEN WarnOnceLoop(Tail(iter), seen, Append(reports, it))
         ELSE WarnOnceLoop(Tail(iter), seen \cup {it}, reports)

warn_on_duplicates_once(iter) == WarnOnceLoop(iter, {}, <<>>)

warn_on_duplicates(iter) == WarnLoop(iter, {}, <<>>)

\* Variant: only the first two keys visited are looked at.
Values_first_two(map, keys) ==
    LET present == SelectSeq(SubSeq(keys, 1, 2), LAMBDA i : map[i] # NONE)
    IN  [k \in DOMAIN present |-> map[present[k]]]

\* HashMap::values() of a map given as [IDs -> String or NONE], visiting the
\* keys in the order `keys` (a HashMap iterates in an unspecified order).
Values(map, keys) ==
    LET present == SelectSeq(keys, LAMBDA i : map[i] # NONE)
    IN  [k \in DOMAIN present |-> map[present[k]]]

\* The visiting orders modelled: ascending and descending key.
KeyOrders == {[k \in 1 .. NumIds |-> k - 1], [k \in 1 .. NumIds |-> NumIds - k]}

\* used_names: the set of all user-supplied names.
used_names == {names[i] : i \in IDs} \ {NONE}

\* Variant: only the names of the IDs in the order count as used.
unused_filter_order_only(s) ==
    s \notin {names[order[k]] : k \in DOMAIN order}

\* The filter closure of unused_names.
unused_filter(s) == s \notin used_names

\* Variant: the candidate iterator starts over at every call.
NextUnusedIndex_restart(pos) ==
    LET ok == {j \in 1 .. Len(autonames) : unused_filter(autonames[j])}
    IN  IF ok = {} THEN 0
        ELSE CHOOSE j \in ok : \A k \in ok : j <= k

\* Variant: the last candidate of the sequence is never handed out.
NextUnusedIndex_short(pos) ==
    LET ok == {j \in (pos + 1) .. (Len(autonames) - 1) :
                  unused_filter(autonames[j])}
    IN  IF ok = {} THEN 0
        ELSE CHOOSE j \in ok : \A k \in ok : j <= k

\* Index in autonames of the next candidate that passes the filter, after
\* `pos` candidates have been taken; 0 when the iterator is exhausted.
NextUnusedIndex(pos) ==
    LET ok == {j \in (pos + 1) .. Len(autonames) : unused_filter(autonames[j])}
    IN  IF ok = {} THEN 0
        ELSE CHOOSE j \in ok : \A k \in ok : j <= k

\* Variant: the display name is ignored.
ResolveDisplay_name_only(id, name) == name

\* display: the display name if set, else the name.
ResolveDisplay(id, name) ==
    IF displays[id] # NONE THEN displays[id] ELSE name

\* The naming state while another component is exercised.
NamesIdle ==
    /\ names = [i \in IDs |-> NONE]
    /\ displays = [i \in IDs |-> NONE]
    /\ order = <<>>
    /\ autonames = <<>>
    /\ pc = "start"
    /\ warnings = <<>>
    /\ orderPos = 0
    /\ autoPos = 0
    /\ out = <<>>

\* DefaultColor::Unknown; a DefaultColor is held as [kind, name, index]:
\* `name` is the hex code, the color name, the set name or the gradient
\* name, `index` the index into the set.
Unknown == [kind |-> "Unknown", name |-> "", index |-> 0]

\* A palette without colors and color sets.
EmptyPalette ==
    [builtin_colors |-> <<>>, custom_colors |-> <<>>,
     builtin_color_sets |-> <<>>]

\* The color scheme state while another component is exercised.
ColorsIdle ==
    /\ color_list = <<>>
    /\ palette = EmptyPalette
    /\ scheme = <<>>
    /\ cpc = "idle"
    /\ changed = FALSE
    /\ before = [scheme |-> <<>>, palette |-> EmptyPalette,
                 color_list |-> <<>>]

\* Nothing was asked of the palette.
NoQuery ==
    [asked |-> FALSE, color |-> Unknown, has |-> FALSE, get |-> NONE,
     palette |-> EmptyPalette]

QueryIdle == query = NoQuery

\* Before the first frame: both mutexes hold "Fallback", nothing is locked.
UiIdle ==
    /\ LOADED = "Fallback"
    /\ NAME = "Fallback"
    /\ held = <<>>
    /\ lock_pairs = {}
    /\ upc = "label_cond"
    /\ label_i = 1
    /\ frames = 0

\* ViewPreferences::default(), its discrete settings.
DefaultView ==
    [show_frontfaces |-> TRUE, show_backfaces |-> TRUE,
     clip_4d_backfaces |-> TRUE, clip_4d_behind_camera |-> TRUE,
     show_internals |-> TRUE, downscale_rate |-> 1,
     downscale_interpolate |-> TRUE]

ViewsIdle ==
    /\ va = DefaultView
    /\ vb = DefaultView
    /\ vt = 0
    /\ vres = DefaultView
    /\ vpc = "idle"

\* LuaValue::Nil
LuaNil == [kind |-> "Nil", i |-> 0]

\* No result yet.
NoResult == [kind |-> "none", value |-> 0, msg |-> ""]

NoCalls == [from_lua |-> 0, get_global |-> 0, depth |-> 0]

NotTried == [called |-> FALSE, value |-> 0, result |-> NoResult]

NdimIdle ==
    /\ lua_value = LuaNil
    /\ global_ndim = LuaNil
    /\ nstack = <<>>
    /\ nret = NoResult
    /\ ncalls = NoCalls
    /\ tried = NotTried
    /\ npc = "idle"

\* Ids of the color systems and names of their schemes.
SysIds == {"cube", "simplex"}
SchemeNames == {"Default", "Dark"}

\* No entry under an id (Option::None of get, Entry::Vacant of get_mut).
NoPrefs ==
    [present |-> FALSE, builtin |-> {}, user |-> {}, last_loaded |-> NONE]

NoSystem == [id |-> NONE, schemes |-> {}, default_scheme |-> NONE]

\* ColorSchemePreferences::default(): the empty map.
EmptyPrefs == [i \in SysIds |-> NoPrefs]

NoPrefCall ==
    [op |-> "none", cs |-> NoSystem, before |-> EmptyPrefs, ret |-> NoPrefs]

PrefsIdle ==
    /\ scheme_prefs = EmptyPrefs
    /\ pref_call = NoPrefCall
    /\ pref_n = 0

\* Number of Arc<PuzzleType> allocations a modelled run makes.
MaxTypes == 2
\* Number of owning handles to one puzzle type a modelled run holds at once.
MaxHandles == 3

TypeIds == 1 .. MaxTypes
\* Weak::new(): a weak reference to no allocation.
NoObject == 0

\* A slot no allocation was made in.
FreeSlot == [live |-> "free", strong |-> 0, this |-> NoObject, name |-> ""]

\* arc() was not called.
NoArc == [of |-> NoObject, outcome |-> "none", handle |-> NoObject]

\* The puzzle type state while another component is exercised.
TypesIdle ==
    /\ types = [o \in TypeIds |-> FreeSlot]
    /\ results = <<>>
    /\ arc_ret = NoArc

\* Number of items a modelled builder's collection may reach.
MaxItems == 2

\* The builders of a modelled puzzle under construction.
Builders == {"axes", "colors", "twists"}

\* No mutating call was made.
NoCall == [builder |-> "", reentrant |-> FALSE, outcome |-> "none"]

\* The builder state while another component is exercised.
BuildersIdle ==
    /\ bitems = [b \in Builders |-> 0]
    /\ locked = [b \in Builders |-> FALSE]
    /\ bstack = <<>>
    /\ blast = NoCall

\* Number of boundary manifolds of a modelled axis.
NumManifolds == 3
\* Number of layers of a modelled axis.
MaxLayers == 3
\* Option::None of LayerInfo::top.
NoManifold == 0

\* The axis layers while another component is exercised.
LayersIdle ==
    /\ layer_stack = <<>>
    /\ built_layers = <<>>
    /\ lpc = "building"

(***************************************************************************)
(* Twists of a PuzzleType.                                                 *)
(***************************************************************************)
\* LayerMaskUint::BITS
LayerMaskBits == 32
\* Number of twist transforms in a modelled puzzle type.
NumTransforms == 3
\* Highest of the low mask bits a modelled twist may set (the top bit,
\* LayerMaskBits - 1, may be set as well).
MaxLowBit == 1

Transforms == 0 .. (NumTransforms - 1)
\* The modelled puzzle types have two twist axes.
Axes == {0, 1}
\* Option::None of TwistTransformInfo::opposite.
NoOpposite == -1
\* Layer counts of an axis: PerLayer is indexed by Layer(u8).
LayerCounts == {0, 2, 3, LayerMaskBits, LayerMaskBits + 1, 255}
\* A LayerMask is held as the set of the positions of its set bits.
LayerMasks == SUBSET ((0 .. MaxLowBit) \cup {LayerMaskBits - 1})

SetMax(S) == CHOOSE x \in S : \A y \in S : y <= x

\* a < b for two layer masks as unsigned integers: they differ, and the
\* highest bit in which they differ is set in b.
LayerMaskLess(a, b) ==
    /\ a # b
    /\ SetMax((a \ b) \cup (b \ a)) \in b

\* Ord of Twist: by layer mask, then by transform.
TwistLe(a, b) ==
    \/ LayerMaskLess(a.layers, b.layers)
    \/ a.layers = b.layers /\ a.transform <= b.transform

\* std::cmp::min(a, b): b only when b < a.
TwistMin(a, b) == IF TwistLe(a, b) THEN a ELSE b

\* u32::reverse_bits
reverse_bits(m) == {LayerMaskBits - 1 - i : i \in m}

\* m >> s for 0 <= s < LayerMaskBits
shr(m, s) == {i - s : i \in {k \in m : k >= s}}

\* The axis of a transform needs no choice in the model: transform t turns
\* about axis t % 2.
AxisOf(t) == t % Cardinality(Axes)

\* The tables a puzzle type may hold: `reverse` is an involution of the
\* transforms; `opposite`, where present, is an involution without fixed
\* points.
TransformTables ==
    {f \in [Transforms -> [axis : Axes,
                           reverse : Transforms,
                           opposite : Transforms \cup {NoOpposite}]] :
        \A t \in Transforms :
            /\ f[t].axis = AxisOf(t)
            /\ f[f[t].reverse].reverse = t
            /\ f[t].opposite # t
            /\ f[t].opposite # NoOpposite => f[f[t].opposite].opposite = t}

\* PuzzleType::info(transform) and info(axis).layer_count()
info(transform) == transform_info[transform]
layer_count(axis) == axis_layers[axis]

\* Variant: the opposite transform is taken where there is one.
reverse_twist_via_opposite(t) ==
    [layers |-> t.layers,
     transform |-> IF info(t.transform).opposite # NoOpposite
                   THEN info(t.transform).opposite
                   ELSE info(t.transform).reverse]

\* PuzzleType::reverse_twist
reverse_twist(t) ==
    [layers |-> t.layers, transform |-> info(t.transform).reverse]

\* The shift amount LayerMaskUint::BITS - layer_count is computed and used
\* without overflow exactly when 1 <= layer_count <= LayerMaskBits.
ShiftInRange(n) == n >= 1 /\ n <= LayerMaskBits

\* The amount a build without overflow checks shifts by: the subtraction
\* wraps and the shift uses the amount modulo LayerMaskBits.
WrappedShift(n) == (LayerMaskBits - n) % LayerMaskBits

\* reversed_layers
reversed_layers(layers, n) == shr(reverse_bits(layers), WrappedShift(n))

\* Variant: the twists are compared by transform first, then by layer mask.
canonicalize_twist_by_transform(t) ==
    LET transform_info_t == info(t.transform)
    IN  IF transform_info_t.opposite # NoOpposite
        THEN LET n == layer_count(transform_info_t.axis)
                 opposite_twist ==
                     [layers |-> reversed_layers(t.layers, n),
                      transform |-> transform_info_t.opposite]
             IN  IF \/ t.transform < opposite_twist.transform
                    \/ /\ t.transform = opposite_twist.transform
                       /\ ~LayerMaskLess(opposite_twist.layers, t.layers)
                 THEN t ELSE opposite_twist
        ELSE t

\* Variant: the opposite twist is returned whenever there is one.
canonicalize_twist_always_opposite(t) ==
    LET transform_info_t == info(t.transform)
    IN  IF transform_info_t.opposite # NoOpposite
        THEN [layers |-> reversed_layers(t.layers,
                             layer_count(transform_info_t.axis)),
              transform |-> transform_info_t.opposite]
        ELSE t

\* PuzzleType::canonicalize_twist, when it returns.
canonicalize_twist(t) ==
    LET transform_info_t == info(t.transform)
    IN  IF transform_info_t.opposite # NoOpposite
        THEN LET n == layer_count(transform_info_t.axis)
                 opposite_twist ==
                     [layers |-> reversed_layers(t.layers, n),
                      transform |-> transform_info_t.opposite]
             IN  TwistMin(t, opposite_twist)
        ELSE t

\* Whether canonicalize_twist(t) evaluates an out-of-range subtraction or
\* shift, which a build with overflow checks turns into a panic.
CanonicalizeOverflows(t) ==
    /\ info(t.transform).opposite # NoOpposite
    /\ ~ShiftInRange(layer_count(info(t.transform).axis))

NoTwist == [layers |-> {}, transform |-> 0]

TwistsIdle ==
    /\ transform_info = [t \in Transforms |->
                            [axis |-> AxisOf(t), reverse |-> t,
                             opposite |-> NoOpposite]]
    /\ axis_layers = [a \in Axes |-> 3]
    /\ twist = NoTwist
    /\ tpc = "idle"
    /\ tres = NoTwist

InitTwists ==
    /\ transform_info \in TransformTables
    /\ axis_layers \in [Axes -> LayerCounts]
    /\ twist \in [layers : LayerMasks, transform : Transforms]
    /\ tpc = "idle"
    /\ tres = NoTwist
    /\ NamesIdle
    /\ ColorsIdle
    /\ TypesIdle
    /\ BuildersIdle
    /\ LayersIdle
    /\ QueryIdle
    /\ PrefsIdle
    /\ NdimIdle
    /\ ViewsIdle
    /\ UiIdle

\* reverse_twist(twist), then reverse_twist of what it returned.
ReverseTwist ==
    /\ tpc \in {"idle", "reversed"}
    /\ tres' = reverse_twist(IF tpc = "idle" THEN twist ELSE tres)
    /\ tpc' = IF tpc = "idle" THEN "reversed" ELSE "reversed_twice"
    /\ UNCHANGED <<transform_info, axis_layers, twist>>
    /\ UNCHANGED notTwists

\* canonicalize_twist(twist) in a build with (checks = TRUE) or without
\* overflow checks.
CanonicalizeTwist ==
    /\ tpc = "idle"
    /\ \E checks \in BOOLEAN :
          IF checks /\ CanonicalizeOverflows(twist)
          THEN /\ tpc' = "canon_panicked"
               /\ UNCHANGED tres
          ELSE /\ tpc' = "canonical"
               /\ tres' = canonicalize_twist(twist)
    /\ UNCHANGED <<transform_info, axis_layers, twist>>
    /\ UNCHANGED notTwists

NextTwists == ReverseTwist \/ CanonicalizeTwist

SpecTwists == InitTwists /\ [][NextTwists]_vars

(***************************************************************************)
(* iter_autonamed                                                          *)
(***************************************************************************)
InitNames ==
    /\ names \in [IDs -> UserNames \cup {NONE}]
    /\ displays \in [IDs -> DisplayNames \cup {NONE}]
    /\ order \in Orders
    /\ autonames \in SeqsUpTo(Candidates, MaxAuto)
    /\ pc = "start"
    /\ warnings = <<>>
    /\ orderPos = 0
    /\ autoPos = 0
    /\ out = <<>>
    /\ TwistsIdle
    /\ ColorsIdle
    /\ TypesIdle
    /\ BuildersIdle
    /\ LayersIdle
    /\ QueryIdle
    /\ PrefsIdle
    /\ NdimIdle
    /\ ViewsIdle
    /\ UiIdle

\* Variant: the duplicate checks are not run by the call itself.
Call_warnings_deferred ==
    /\ pc = "start"
    /\ pc' = "iter"
    /\ UNCHANGED <<names, displays, order, autonames, warnings, orderPos,
                   autoPos, out>>
    /\ UNCHANGED notNames

\* The body of iter_autonamed up to the returned iterator: both
\* warn_on_duplicates passes run here, the iterator adaptors are only built.
Call ==
    /\ pc = "start"
    /\ \E kn \in KeyOrders, kd \in KeyOrders :
          warnings' = warnings \o warn_on_duplicates(Values(names, kn))
                               \o warn_on_duplicates(Values(displays, kd))
    /\ pc' = "iter"
    /\ UNCHANGED <<names, displays, order, autonames, orderPos, autoPos, out>>
    /\ UNCHANGED notNames

\* Variant: the IDs with a user-supplied name are left out of the output.
YieldedItems_unnamed_only(id, j) ==
    IF names[id] # NONE \/ j = 0
    THEN <<>>
    ELSE << <<id, autonames[j], ResolveDisplay(id, autonames[j])>> >>

\* Variant: an item with an empty name is yielded when no candidate is left.
YieldedItems_placeholder(id, j) ==
    IF names[id] # NONE
    THEN << <<id, names[id], ResolveDisplay(id, names[id])>> >>
    ELSE IF j = 0
    THEN << <<id, "", ResolveDisplay(id, "")>> >>
    ELSE << <<id, autonames[j], ResolveDisplay(id, autonames[j])>> >>

\* The items one next() hands to the consumer for `id`, `j` being the index
\* of the candidate unused_names.next() returns (0: it returns None): the
\* closure panics inside next_unused_name() before it builds an item.
YieldedItems(id, j) ==
    IF names[id] # NONE
    THEN << <<id, names[id], ResolveDisplay(id, names[id])>> >>
    ELSE IF j = 0
    THEN <<>>
    ELSE << <<id, autonames[j], ResolveDisplay(id, autonames[j])>> >>

\* One next() of the returned iterator.
IterNext ==
    /\ pc = "iter"
    /\ IF orderPos = Len(order)
       THEN /\ pc' = "done"
            /\ UNCHANGED <<orderPos, autoPos, out>>
       ELSE LET id == order[orderPos + 1]
                j  == NextUnusedIndex(autoPos)
            IN  /\ orderPos' = orderPos + 1
                /\ out' = out \o YieldedItems(id, j)
                /\ IF names[id] # NONE
                   THEN UNCHANGED <<pc, autoPos>>
                   ELSE IF j = 0
                   THEN \* unused_names.next() is None: expect() panics
                        /\ pc' = "panicked"
                        /\ autoPos' = Len(autonames)
                   ELSE /\ autoPos' = j
                        /\ UNCHANGED pc
    /\ UNCHANGED <<names, displays, order, autonames, warnings>>
    /\ UNCHANGED notNames

NextNames == Call \/ IterNext

SpecNames == InitNames /\ [][NextNames]_vars

(***************************************************************************)
(* GlobalColorPalette and the repair of a color scheme.                    *)
(***************************************************************************)
\* Number of colors of a modelled color system.
MaxColors == 2
\* Number of colors of the longest modelled color set.
MaxSetLen == 2

ColorNames == {"R", "G"}
SingleNames == {"x"}
SetNames == {"s"}
Rgbs == {"c0"}
\* The names DefaultColorGradient parses.
GradientNames == {"Rainbow"}

\* The modelled default-color references.
DefaultColors ==
    {Unknown, [kind |-> "HexCode", name |-> "ff0000", index |-> 0]}
    \cup {[kind |-> "Single", name |-> n, index |-> 0] : n \in SingleNames}
    \cup {[kind |-> "Set", name |-> n, index |-> MaxSetLen - 1] : n \in SetNames}
    \cup {[kind |-> "Gradient", name |-> n, index |-> 0] :
              n \in GradientNames \cup {"Sinebow"}}

\* The maps with keys among K and values in V.
Maps(K, V) == UNION {[D -> V] : D \in SUBSET K}

Palettes ==
    [builtin_colors : Maps(SingleNames, Rgbs),
     custom_colors : Maps(SingleNames, Rgbs),
     builtin_color_sets : Maps(SetNames, SeqsUpTo(Rgbs, MaxSetLen))]

\* The key sequence of an IndexMap.
Keys(s) == [i \in DOMAIN s |-> s[i].key]

\* ColorScheme = IndexMap<String, DefaultColor>: no key twice.
Schemes ==
    {s \in SeqsUpTo([key : ColorNames, value : DefaultColors],
                    Cardinality(ColorNames)) :
        \A i, j \in DOMAIN s : s[i].key = s[j].key => i = j}

\* GlobalColorPalette::get; NONE for Option::None.
get(color) ==
    CASE color.kind = "Unknown" -> NONE
      [] color.kind = "HexCode" -> color.name
      [] color.kind = "Single" ->
            IF color.name \in DOMAIN palette.builtin_colors
            THEN palette.builtin_colors[color.name]
            ELSE IF color.name \in DOMAIN palette.custom_colors
            THEN palette.custom_colors[color.name]
            ELSE NONE
      [] color.kind = "Set" ->
            IF /\ color.name \in DOMAIN palette.builtin_color_sets
               /\ color.index < Len(palette.builtin_color_sets[color.name])
            THEN palette.builtin_color_sets[color.name][color.index + 1]
            ELSE NONE
      [] color.kind = "Gradient" ->
            IF color.name \in GradientNames THEN "sample" ELSE NONE

\* Variant: every gradient reference counts as resolvable.
has_any_gradient(color) ==
    IF color.kind = "Gradient" THEN TRUE ELSE get(color) # NONE

\* GlobalColorPalette::has
has(color) ==
    IF color.kind = "Gradient"
    THEN color.name \in GradientNames
    ELSE get(color) # NONE

\* The position of key k in the IndexMap s, 0 when s has no such key.
IndexOfKey(s, k) ==
    IF \E i \in DOMAIN s : s[i].key = k
    THEN CHOOSE i \in DOMAIN s : s[i].key = k
    ELSE 0

\* What IndexMap::swap_remove_entry leaves of s after it removed the entry
\* at position i: the last entry takes its place.
swap_remove(s, i) ==
    [j \in 1 .. (Len(s) - 1) |-> IF j = i THEN s[Len(s)] ELSE s[j]]

\* IndexMap insert, as collect() does for each pair: the value of a key the
\* map holds is replaced in place, a new key is appended.
insert(s, e) ==
    IF IndexOfKey(s, e.key) # 0
    THEN [s EXCEPT ![IndexOfKey(s, e.key)].value = e.value]
    ELSE Append(s, e)

\* The rebuilt scheme: for each color name of the list, in list order, the
\* entry swap_remove_entry takes out of the old scheme or (name, Unknown),
\* collected into a new IndexMap.
RECURSIVE Rebuild(_, _, _)
Rebuild(old, list, acc) ==
    IF list = <<>>
    THEN acc
    ELSE LET i == IndexOfKey(old, Head(list))
         IN  IF i # 0
             THEN Rebuild(swap_remove(old, i), Tail(list), insert(acc, old[i]))
             ELSE Rebuild(old, Tail(list),
                          insert(acc, [key |-> Head(list), value |-> Unknown]))

\* hyperpuzzle::ensure_color_scheme_is_valid(scheme.values_mut(), has): each
\* value the palette cannot resolve becomes Unknown; reports whether a value
\* changed.
ensure_color_scheme_is_valid(s) ==
    LET r == [i \in DOMAIN s |->
                 IF has(s[i].value) THEN s[i]
                 ELSE [key |-> s[i].key, value |-> Unknown]]
    IN  [scheme |-> r, changed |-> r # s]

\* Variant: a rebuilt scheme is returned as it was collected.
ensure_color_scheme_is_valid_rebuild_only(s, list) ==
    LET names_match == Keys(s) = list
        valid == ensure_color_scheme_is_valid(s)
    IN  IF names_match
        THEN [scheme |-> valid.scheme, changed |-> valid.changed]
        ELSE [scheme |-> Rebuild(s, list, <<>>), changed |-> TRUE]

\* GlobalColorPalette::ensure_color_scheme_is_valid_for_color_system: the
\* scheme it leaves and the value it returns.
ensure_color_scheme_is_valid_for_color_system(s, list) ==
    LET names_match == Keys(s) = list
        rebuilt == IF names_match THEN s ELSE Rebuild(s, list, <<>>)
        valid == ensure_color_scheme_is_valid(rebuilt)
    IN  [scheme |-> valid.scheme, changed |-> ~names_match \/ valid.changed]

InitColors ==
    /\ color_list \in SeqsUpTo(ColorNames, MaxColors)
    /\ palette \in Palettes
    /\ scheme \in Schemes
    /\ cpc = "idle"
    /\ changed = FALSE
    /\ before = [scheme |-> scheme, palette |-> palette,
                 color_list |-> color_list]
    /\ NamesIdle
    /\ TwistsIdle
    /\ TypesIdle
    /\ BuildersIdle
    /\ LayersIdle
    /\ QueryIdle
    /\ PrefsIdle
    /\ NdimIdle
    /\ ViewsIdle
    /\ UiIdle

\* One call of ensure_color_scheme_is_valid_for_color_system on the scheme,
\* and a second one on what the first left, nothing changing in between.
EnsureValid ==
    /\ cpc \in {"idle", "once"}
    /\ LET r == ensure_color_scheme_is_valid_for_color_system(scheme,
                                                              color_list)
       IN  /\ scheme' = r.scheme
           /\ changed' = r.changed
    /\ before' = [scheme |-> scheme, palette |-> palette,
                  color_list |-> color_list]
    /\ cpc' = IF cpc = "idle" THEN "once" ELSE "twice"
    /\ UNCHANGED <<color_list, palette>>
    /\ UNCHANGED notColors

NextColors == EnsureValid

SpecColors == InitColors /\ [][NextColors]_vars

(***************************************************************************)
(* PuzzleType::create_puzzle_type_from_shapes and PuzzleType::arc          *)
(***************************************************************************)
\* Number of calls of create_puzzle_type_from_shapes in a modelled run.
MaxCalls == 3

TypeNames == {"a", "b"}

\* Err(..) of the fallible call `step`, and Ok(Arc) of the allocation o.
ErrOf(step) == [ok |-> FALSE, handle |-> NoObject, error |-> step]
OkOf(o) == [ok |-> TRUE, handle |-> o, error |-> ""]

\* The slot the next Arc allocation takes.
NextSlot ==
    CHOOSE o \in TypeIds :
        /\ types[o].live = "free"
        /\ \A q \in TypeIds : q < o => types[q].live # "free"

\* Variant: `this` is left as Weak::new().
new_cyclic_unset(o, name) ==
    [live |-> "alive", strong |-> 1, this |-> NoObject, name |-> name]

\* Arc::new_cyclic(|this| { ret.this = this.clone(); ret }): the allocation
\* o holds the value, its `this` a weak reference to o, and one strong
\* reference is returned.
new_cyclic(o, name) ==
    [live |-> "alive", strong |-> 1, this |-> o, name |-> name]

\* Whether Weak::upgrade of a weak reference to t is Some.
upgrade_ok(t) == t # NoObject /\ types[t].live = "alive"

InitTypes ==
    /\ types = [o \in TypeIds |-> FreeSlot]
    /\ results = <<>>
    /\ arc_ret = NoArc
    /\ NamesIdle
    /\ TwistsIdle
    /\ ColorsIdle
    /\ BuildersIdle
    /\ LayersIdle
    /\ QueryIdle
    /\ PrefsIdle
    /\ NdimIdle
    /\ ViewsIdle
    /\ UiIdle

\* create_puzzle_type_from_shapes(name, arena, pieces): the struct literal
\* evaluates arena.space().ndim()?, IsometryGroup::from_generators(&[])? and
\* Mesh::from_arena(arena, false)? in this order, each returning the error
\* from the function; only then is the Arc allocated.
CreatePuzzleType ==
    /\ Len(results) < MaxCalls
    /\ \E o \in TypeIds : types[o].live = "free"
    /\ \E name \in TypeNames, ndim_ok, symmetry_ok, mesh_ok \in BOOLEAN :
          IF ~ndim_ok
          THEN /\ results' = Append(results, ErrOf("ndim"))
               /\ UNCHANGED types
          ELSE IF ~symmetry_ok
          THEN /\ results' = Append(results, ErrOf("symmetry"))
               /\ UNCHANGED types
          ELSE IF ~mesh_ok
          THEN /\ results' = Append(results, ErrOf("mesh"))
               /\ UNCHANGED types
          ELSE /\ types' = [types EXCEPT
                               ![NextSlot] = new_cyclic(NextSlot, name)]
               /\ results' = Append(results, OkOf(NextSlot))
    /\ UNCHANGED arc_ret
    /\ UNCHANGED notTypes

\* arc() on a puzzle type some owning handle gives access to: upgrade of
\* `this`, expect() panicking on None.
ArcCall ==
    /\ \E o \in TypeIds :
          /\ types[o].live = "alive"
          /\ types[o].strong < MaxHandles
          /\ LET t == types[o].this
             IN  IF upgrade_ok(t)
                 THEN /\ types' = [types EXCEPT ![t].strong = @ + 1]
                      /\ arc_ret' = [of |-> o, outcome |-> "ok", handle |-> t]
                 ELSE /\ arc_ret' = [of |-> o, outcome |-> "panicked",
                                     handle |-> NoObject]
                      /\ UNCHANGED types
    /\ UNCHANGED results
    /\ UNCHANGED notTypes

\* An owning handle is dropped; the value and its `this` go with the last.
DropHandle ==
    /\ \E o \in TypeIds :
          /\ types[o].live = "alive"
          /\ types' = [types EXCEPT
                          ![o] = IF @.strong = 1
                                 THEN [live |-> "dropped", strong |-> 0,
                                       this |-> NoObject, name |-> @.name]
                                 ELSE [@ EXCEPT !.strong = @ - 1]]
    /\ UNCHANGED <<results, arc_ret>>
    /\ UNCHANGED notTypes

NextTypes == CreatePuzzleType \/ ArcCall \/ DropHandle

SpecTypes == InitTypes /\ [][NextTypes]_vars

(***************************************************************************)
(* The builders, each wrapped in Arc<Mutex<T>> and reached by nested calls *)
(* of one logical thread.                                                  *)
(***************************************************************************)
\* Depth of the nested calls of a modelled run.
MaxDepth == 3

\* Variant: the lock is handed out again while it is held.
try_lock_reentrant(b) == "acquired"

\* The attempt of a mutating call to take builder b's lock: it returns at
\* once, with the lock or with a contention error.
try_lock(b) == IF locked[b] THEN "contended" ELSE "acquired"

InitBuilders ==
    /\ bitems = [b \in Builders |-> 0]
    /\ locked = [b \in Builders |-> FALSE]
    /\ bstack = <<>>
    /\ blast = NoCall
    /\ NamesIdle
    /\ TwistsIdle
    /\ ColorsIdle
    /\ TypesIdle
    /\ LayersIdle
    /\ QueryIdle
    /\ PrefsIdle
    /\ NdimIdle
    /\ ViewsIdle
    /\ UiIdle

\* A mutating call on builder b, made by the caller or by a callback running
\* inside the mutations in progress: with the lock it enters its exclusive
\* section, without it it returns the contention error and touches nothing.
BeginMutation ==
    /\ Len(bstack) < MaxDepth
    /\ \E b \in Builders :
          /\ bitems[b] < MaxItems
          /\ IF try_lock(b) = "acquired"
             THEN /\ locked' = [locked EXCEPT ![b] = TRUE]
                  /\ bstack' = Append(bstack, b)
                  /\ blast' = [builder |-> b, reentrant |-> b \in Range(bstack),
                               outcome |-> "entered"]
             ELSE /\ blast' = [builder |-> b, reentrant |-> b \in Range(bstack),
                               outcome |-> "contention"]
                  /\ UNCHANGED <<locked, bstack>>
    /\ UNCHANGED bitems
    /\ UNCHANGED notBuilders

\* The innermost mutation in progress stores its item and leaves its
\* exclusive section.
FinishMutation ==
    /\ bstack # <<>>
    /\ LET b == bstack[Len(bstack)]
       IN  /\ bitems' = [bitems EXCEPT ![b] = @ + 1]
           /\ locked' = [locked EXCEPT ![b] = FALSE]
           /\ blast' = [builder |-> b, reentrant |-> FALSE,
                        outcome |-> "stored"]
    /\ bstack' = SubSeq(bstack, 1, Len(bstack) - 1)
    /\ UNCHANGED notBuilders

\* The contention error is fatal to the build: the innermost mutation in
\* progress returns it without storing anything and leaves its exclusive
\* section.
AbortMutation ==
    /\ bstack # <<>>
    /\ blast.outcome = "contention"
    /\ locked' = [locked EXCEPT ![bstack[Len(bstack)]] = FALSE]
    /\ bstack' = SubSeq(bstack, 1, Len(bstack) - 1)
    /\ UNCHANGED <<bitems, blast>>
    /\ UNCHANGED notBuilders

NextBuilders == BeginMutation \/ FinishMutation \/ AbortMutation

SpecBuilders == InitBuilders /\ [][NextBuilders]_vars

(***************************************************************************)
(* The layers of an axis: AxisInfo, LayerInfo.                             *)
(***************************************************************************)
\* ManifoldRef of a layer boundary; a boundary is identified with its depth
\* along the axis, counted from the innermost one.
Manifolds == 1 .. NumManifolds

\* LayerInfo
LayerInfos == [bottom : Manifolds, top : Manifolds \cup {NoManifold}]

\* Variant: every stack is accepted.
layers_consistent_unchecked(stack) == TRUE

\* The check of a layer stack when its axis is finalized: every layer but
\* the last has a top boundary, above its bottom boundary, that is the
\* bottom boundary of the next layer, and the last layer has none.
layers_consistent(stack) ==
    /\ \A i \in 1 .. (Len(stack) - 1) :
          /\ stack[i].top # NoManifold
          /\ stack[i].bottom < stack[i].top
          /\ stack[i].top = stack[i + 1].bottom
    /\ stack # <<>> => stack[Len(stack)].top = NoManifold

InitLayers ==
    /\ layer_stack \in SeqsUpTo(LayerInfos, MaxLayers)
    /\ built_layers = <<>>
    /\ lpc = "building"
    /\ NamesIdle
    /\ TwistsIdle
    /\ ColorsIdle
    /\ TypesIdle
    /\ BuildersIdle
    /\ QueryIdle
    /\ PrefsIdle
    /\ NdimIdle
    /\ ViewsIdle
    /\ UiIdle

\* The axis is finalized: a consistent stack becomes AxisInfo::layers, any
\* other stack is rejected with an error.
BuildAxis ==
    /\ lpc = "building"
    /\ IF layers_consistent(layer_stack)
       THEN /\ built_layers' = layer_stack
            /\ lpc' = "built"
       ELSE /\ lpc' = "rejected"
            /\ UNCHANGED built_layers
    /\ UNCHANGED layer_stack
    /\ UNCHANGED notLayers

NextLayers == BuildAxis

SpecLayers == InitLayers /\ [][NextLayers]_vars

(***************************************************************************)
(* GlobalColorPalette::has and GlobalColorPalette::get                     *)
(***************************************************************************)
\* The default-color references asked of a palette: those of the modelled
\* schemes, and references to a color, a set and set members no modelled
\* palette holds.
QueryColors ==
    DefaultColors
    \cup {[kind |-> "Single", name |-> "y", index |-> 0]}
    \cup {[kind |-> "Set", name |-> n, index |-> i] :
              n \in SetNames \cup {"t"}, i \in 0 .. MaxSetLen}

InitPalette ==
    /\ palette \in Palettes
    /\ color_list = <<>>
    /\ scheme = <<>>
    /\ cpc = "idle"
    /\ changed = FALSE
    /\ before = [scheme |-> <<>>, palette |-> palette, color_list |-> <<>>]
    /\ query = NoQuery
    /\ NamesIdle
    /\ TwistsIdle
    /\ TypesIdle
    /\ BuildersIdle
    /\ LayersIdle
    /\ PrefsIdle
    /\ NdimIdle
    /\ ViewsIdle
    /\ UiIdle

\* has(color) and get(color) on the palette, both taking &self.
Query ==
    /\ \E c \in QueryColors :
          query' = [asked |-> TRUE, color |-> c, has |-> has(c),
                    get |-> get(c), palette |-> palette]
    /\ UNCHANGED notQuery

NextPalette == Query

SpecPalette == InitPalette /\ [][NextPalette]_vars

(***************************************************************************)
(* ColorSchemePreferences: the per-color-system scheme presets.            *)
(***************************************************************************)
\* Number of calls a modelled run makes.
MaxPrefCalls == 3

\* A color system: its id, the names of its schemes, and its default scheme.
ColorSystems ==
    {cs \in [id : SysIds, schemes : SUBSET SchemeNames,
             default_scheme : SchemeNames] :
        cs.default_scheme \in cs.schemes}

\* ColorSystemPreferences::default(): no presets, nothing loaded.
DefaultPrefs ==
    [present |-> TRUE, builtin |-> {}, user |-> {}, last_loaded |-> NONE]

\* PresetsList::set_builtin_presets: replaces the built-in presets and
\* deletes the user presets of the same names.
set_builtin_presets(p, presets) ==
    [p EXCEPT !.builtin = presets, !.user = @ \ presets]

\* PresetsList::set_last_loaded
set_last_loaded(p, name) == [p EXCEPT !.last_loaded = name]

\* One preset per key of color_system.schemes.
update_builtin_schemes(p, color_system) ==
    set_builtin_presets(p, {name : name \in color_system.schemes})

from_color_system(color_system) ==
    set_last_loaded(update_builtin_schemes(DefaultPrefs, color_system),
                    color_system.default_scheme)

ColorSchemePreferences_get(map, color_system) == map[color_system.id]

\* The map after get_mut; a variant that overwrites the entry each time.
ColorSchemePreferences_get_mut_overwrite(map, color_system) ==
    [map EXCEPT ![color_system.id] = from_color_system(color_system)]

ColorSchemePreferences_get_mut(map, color_system) ==
    IF ~map[color_system.id].present
    THEN [map EXCEPT ![color_system.id] = from_color_system(color_system)]
    ELSE [map EXCEPT
            ![color_system.id] = update_builtin_schemes(@, color_system)]

InitPrefs ==
    /\ scheme_prefs = EmptyPrefs
    /\ pref_call = NoPrefCall
    /\ pref_n = 0
    /\ NamesIdle
    /\ TwistsIdle
    /\ ColorsIdle
    /\ TypesIdle
    /\ BuildersIdle
    /\ LayersIdle
    /\ QueryIdle
    /\ NdimIdle
    /\ ViewsIdle
    /\ UiIdle

PrefsGet ==
    /\ pref_n < MaxPrefCalls
    /\ \E cs \in ColorSystems :
          pref_call' = [op |-> "get", cs |-> cs, before |-> scheme_prefs,
                        ret |-> ColorSchemePreferences_get(scheme_prefs, cs)]
    /\ pref_n' = pref_n + 1
    /\ UNCHANGED scheme_prefs
    /\ UNCHANGED notPrefs

PrefsGetMut ==
    /\ pref_n < MaxPrefCalls
    /\ \E cs \in ColorSystems :
          /\ scheme_prefs' = ColorSchemePreferences_get_mut(scheme_prefs, cs)
          /\ pref_call' = [op |-> "get_mut", cs |-> cs,
                           before |-> scheme_prefs,
                           ret |-> scheme_prefs'[cs.id]]
    /\ pref_n' = pref_n + 1
    /\ UNCHANGED notPrefs

\* The user saves the current colors as a preset of their own, through the
\* entry get_mut returned.
PrefsSaveUser ==
    /\ pref_n < MaxPrefCalls
    /\ pref_call.op = "get_mut"
    /\ \E name \in SchemeNames \ scheme_prefs[pref_call.cs.id].builtin :
          /\ scheme_prefs' =
                [scheme_prefs EXCEPT
                    ![pref_call.cs.id] =
                        set_last_loaded([@ EXCEPT !.user = @ \cup {name}],
                                        name)]
          /\ pref_call' = [op |-> "save", cs |-> pref_call.cs,
                           before |-> scheme_prefs,
                           ret |-> scheme_prefs'[pref_call.cs.id]]
    /\ pref_n' = pref_n + 1
    /\ UNCHANGED notPrefs

NextPrefs == PrefsGet \/ PrefsGetMut \/ PrefsSaveUser

SpecPrefs == InitPrefs /\ [][NextPrefs]_vars

(***************************************************************************)
(* LuaNdim: the number of dimensions, from a Lua value or the global NDIM. *)
(***************************************************************************)
\* hypermath's MAX_NDIM, a u8.
MAX_NDIM == 7
\* Number of nested calls a modelled run may hold.
MaxStack == 4

\* The LuaInteger arguments: around both ends of 1..=MAX_NDIM and around
\* the width of a u8.
NdimIntegers == {-1, 0, 1, MAX_NDIM, MAX_NDIM + 1, 255, 256, 257}

\* Lua values: nil, an integer, or anything else (a string, a table, ...).
LuaValues ==
    {LuaNil, [kind |-> "Other", i |-> 0]}
        \cup {[kind |-> "Integer", i |-> i] : i \in NdimIntegers}

Ok(v) == [kind |-> "Ok", value |-> v, msg |-> ""]
Err(m) == [kind |-> "Err", value |-> 0, msg |-> m]

\* value as u8
as_u8(value) == value % 256

\* try_from without the upper end of the range.
try_from_positive(value) ==
    IF value >= 1 THEN Ok(as_u8(value)) ELSE Err("out of range")

try_from(value) ==
    IF value >= 1 /\ value <= MAX_NDIM
    THEN Ok(as_u8(value))
    ELSE Err("out of range")

\* What a function does when entered: it returns ret, or it calls callee
\* with arg and waits.
Returns(r) == [callee |-> "none", arg |-> LuaNil, ret |-> r]
Calls(f, a) == [callee |-> f, arg |-> a, ret |-> NoResult]

from_lua(value) ==
    IF value.kind = "Nil" THEN Calls("get_global", LuaNil)
    ELSE IF value.kind = "Integer" THEN Returns(try_from(value.i))
    ELSE Returns(Err("expected number of dimensions"))

\* get_global that hands a nil global to from_lua as well.
get_global_unguarded(global) == Calls("from_lua", global)

get_global(global) ==
    IF global.kind = "Nil"
    THEN Returns(Err("unknown number of dimensions"))
    ELSE Calls("from_lua", global)

Frame(f, a) == [fn |-> f, arg |-> a, waiting |-> FALSE]

Entered(f) ==
    [ncalls EXCEPT ![f] = @ + 1,
                   !.depth = IF Len(nstack) + 1 > @ THEN Len(nstack) + 1
                             ELSE @]

InitNdim ==
    /\ lua_value \in LuaValues
    /\ global_ndim \in LuaValues
    /\ nstack = <<>>
    /\ nret = NoResult
    /\ ncalls = NoCalls
    /\ tried = NotTried
    /\ npc = "idle"
    /\ NamesIdle
    /\ TwistsIdle
    /\ ColorsIdle
    /\ TypesIdle
    /\ BuildersIdle
    /\ LayersIdle
    /\ QueryIdle
    /\ PrefsIdle
    /\ ViewsIdle
    /\ UiIdle

\* LuaNdim::try_from(i) called directly.
CallTryFrom ==
    /\ npc = "idle"
    /\ lua_value.kind = "Integer"
    /\ nret' = try_from(lua_value.i)
    /\ tried' = [called |-> TRUE, value |-> lua_value.i, result |-> nret']
    /\ npc' = "done"
    /\ UNCHANGED <<lua_value, global_ndim, nstack, ncalls>>
    /\ UNCHANGED notNdim

\* LuaNdim::from_lua(lua_value, lua) is entered.
CallFromLua ==
    /\ npc = "idle"
    /\ nstack' = <<Frame("from_lua", lua_value)>>
    /\ ncalls' = Entered("from_lua")
    /\ npc' = "running"
    /\ UNCHANGED <<lua_value, global_ndim, nret, tried>>
    /\ UNCHANGED notNdim

\* LuaNdim::get_global(lua) is entered.
CallGetGlobal ==
    /\ npc = "idle"
    /\ nstack' = <<Frame("get_global", LuaNil)>>
    /\ ncalls' = Entered("get_global")
    /\ npc' = "running"
    /\ UNCHANGED <<lua_value, global_ndim, nret, tried>>
    /\ UNCHANGED notNdim

\* The function on top of the stack runs up to its return or its call.
NdimStep ==
    /\ npc = "running"
    /\ nstack # <<>>
    /\ LET top == nstack[Len(nstack)]
           does == IF top.fn = "from_lua" THEN from_lua(top.arg)
                   ELSE get_global(global_ndim)
       IN  /\ ~top.waiting
           /\ IF does.callee = "none"
              THEN /\ nstack' = SubSeq(nstack, 1, Len(nstack) - 1)
                   /\ nret' = does.ret
                   /\ ncalls' = ncalls
                   /\ npc' = IF Len(nstack) = 1 THEN "done" ELSE "running"
                   /\ tried' =
                        IF top.fn = "from_lua" /\ top.arg.kind = "Integer"
                        THEN [called |-> TRUE, value |-> top.arg.i,
                              result |-> does.ret]
                        ELSE tried
              ELSE /\ Len(nstack) < MaxStack
                   /\ nstack' =
                        Append([nstack EXCEPT ![Len(nstack)].waiting = TRUE],
                               Frame(does.callee, does.arg))
                   /\ ncalls' = Entered(does.callee)
                   /\ UNCHANGED <<nret, npc, tried>>
    /\ UNCHANGED <<lua_value, global_ndim>>
    /\ UNCHANGED notNdim

\* The waiting function on top of the stack gets its callee's result and
\* returns it: from_lua maps Ok(n) to Ok(LuaNdim(n)), get_global takes the
\* number out of Ok(LuaNdim(n)), and both pass an error on.
NdimReturn ==
    /\ npc = "running"
    /\ nstack # <<>>
    /\ nstack[Len(nstack)].waiting
    /\ nret # NoResult
    /\ nstack' = SubSeq(nstack, 1, Len(nstack) - 1)
    /\ npc' = IF Len(nstack) = 1 THEN "done" ELSE "running"
    /\ UNCHANGED <<lua_value, global_ndim, nret, ncalls, tried>>
    /\ UNCHANGED notNdim

NextNdim ==
    CallTryFrom \/ CallFromLua \/ CallGetGlobal \/ NdimStep \/ NdimReturn

SpecNdim == InitNdim /\ [][NextNdim]_vars

\* Every call that was entered keeps running.
SpecNdimFair == SpecNdim /\ WF_vars(NdimStep) /\ WF_vars(NdimReturn)

(***************************************************************************)
(* ViewPreferences::interpolate, on the discrete settings of a view.       *)
(***************************************************************************)
\* Largest downscale_rate of a modelled preset.
MaxRate == 2

\* The boolean settings of a view.
BoolFields ==
    {"show_frontfaces", "show_backfaces", "clip_4d_backfaces",
     "clip_4d_behind_camera", "show_internals", "downscale_interpolate"}

Views ==
    [show_frontfaces : BOOLEAN, show_backfaces : BOOLEAN,
     clip_4d_backfaces : BOOLEAN, clip_4d_behind_camera : BOOLEAN,
     show_internals : BOOLEAN, downscale_rate : 1 .. MaxRate,
     downscale_interpolate : BOOLEAN]

\* The parameter t, in tenths: below, at the ends of, inside and above 0..1.
TValues == {-5, 0, 4, 5, 10, 15}

\* t < 0.5 picks a, anything else picks b.
lerp_discrete(a, b, t) == IF t < 5 THEN a ELSE b

\* hypermath::util::lerp followed by `as u32`: a + (b - a) * t, the
\* fraction dropped and a negative value saturated to 0.
lerp_as_u32(a, b, t) ==
    LET tenths == 10 * a + (b - a) * t
    IN  IF tenths < 0 THEN 0 ELSE tenths \div 10

interpolate(self, rhs, t) ==
    [show_frontfaces |->
        lerp_discrete(self.show_frontfaces, rhs.show_frontfaces, t),
     show_backfaces |->
        lerp_discrete(self.show_backfaces, rhs.show_backfaces, t),
     clip_4d_backfaces |-> self.clip_4d_backfaces \/ rhs.clip_4d_backfaces,
     clip_4d_behind_camera |->
        self.clip_4d_backfaces \/ rhs.clip_4d_backfaces,
     show_internals |-> self.show_internals /\ rhs.show_internals,
     downscale_rate |->
        lerp_as_u32(self.downscale_rate, rhs.downscale_rate, t),
     downscale_interpolate |->
        lerp_discrete(self.downscale_interpolate, rhs.downscale_interpolate,
                      t)]

InitViews ==
    /\ va \in Views
    /\ vb = va
    /\ vt = 0
    /\ vres = va
    /\ vpc = "idle"
    /\ NamesIdle
    /\ TwistsIdle
    /\ ColorsIdle
    /\ TypesIdle
    /\ BuildersIdle
    /\ LayersIdle
    /\ QueryIdle
    /\ PrefsIdle
    /\ NdimIdle
    /\ UiIdle

\* a.interpolate(b, t)
Interpolate ==
    /\ vpc = "idle"
    /\ \E b \in Views, t \in TValues :
          /\ vb' = b
          /\ vt' = t
          /\ vres' = interpolate(va, b, t)
    /\ vpc' = "done"
    /\ UNCHANGED va
    /\ UNCHANGED notViews

\* a.interpolate(a, t)
InterpolateSelf ==
    /\ vpc = "idle"
    /\ \E t \in TValues :
          /\ vb' = va
          /\ vt' = t
          /\ vres' = interpolate(va, va, t)
    /\ vpc' = "done"
    /\ UNCHANGED va
    /\ UNCHANGED notViews

NextViews == Interpolate \/ InterpolateSelf

SpecViews == InitViews /\ [][NextViews]_vars

(***************************************************************************)
(* build_view_section: the locks a frame takes on its preset-name mutexes. *)
(***************************************************************************)
\* Number of frames a modelled run builds.
MaxFrames == 2

\* The labels of the loop over the saved presets.
Labels == <<"Fallback", "Speedsolving", "Unfolded (back)", "Unfolded (front)">>

\* What the text field can leave in NAME: the text as it was, the reset
\* value, or something typed.
EditedNames(name, reset) == {name, reset, "typed"}

\* parking_lot::Mutex::lock by the thread that holds the guards in h: the
\* guards after it, or no return when m is among them.
CanLock(h, m) == \A k \in DOMAIN h : h[k] # m
lock(h, m) == Append(h, m)

\* The orders in which two mutexes are held together after m is locked.
PairsAfter(h, m) == lock_pairs \cup {<<h[k], m>> : k \in DOMAIN h}

\* A condition whose temporaries live as long as the block it guards.
condition_end_keep(h) == h

\* The end of the condition of an `if`: its temporaries are dropped before
\* the block runs.
condition_end(h) == <<>>

\* The end of a statement: its temporaries are dropped.
statement_end(h) == <<>>

\* The statement after the loop body for label i.
AfterLabel(i) == IF i < Len(Labels) THEN "label_cond" ELSE "delete"
NextLabel(i) == IF i < Len(Labels) THEN i + 1 ELSE i

InitUi ==
    /\ LOADED = "Fallback"
    /\ NAME = "Fallback"
    /\ held = <<>>
    /\ lock_pairs = {}
    /\ upc = "label_cond"
    /\ label_i = 1
    /\ frames = 0
    /\ NamesIdle
    /\ TwistsIdle
    /\ ColorsIdle
    /\ TypesIdle
    /\ BuildersIdle
    /\ LayersIdle
    /\ QueryIdle
    /\ PrefsIdle
    /\ NdimIdle
    /\ ViewsIdle

\* A lock() of mutex m at position here, going on to position there.
LockAt(here, m, there) ==
    /\ upc = here
    /\ IF CanLock(held, m)
       THEN /\ held' = lock(held, m)
            /\ lock_pairs' = PairsAfter(held, m)
            /\ upc' = there
       ELSE /\ upc' = "deadlocked"
            /\ UNCHANGED <<held, lock_pairs>>

\* `*LOADED.lock() == s` in the condition of the `if`.
LabelCond ==
    /\ LockAt("label_cond", "LOADED", "label_eval")
    /\ UNCHANGED <<LOADED, NAME, label_i, frames>>
    /\ UNCHANGED notUi

\* selectable_label(..).clicked(): the label was clicked or not; the
\* condition ends.
LabelEval ==
    /\ upc = "label_eval"
    /\ held' = condition_end(held)
    /\ \E clicked \in BOOLEAN :
          IF clicked
          THEN upc' = "label_body" /\ label_i' = label_i
          ELSE upc' = AfterLabel(label_i) /\ label_i' = NextLabel(label_i)
    /\ UNCHANGED <<LOADED, NAME, lock_pairs, frames>>
    /\ UNCHANGED notUi

\* `*LOADED.lock() = s.to_string();`
LabelBody ==
    /\ upc = "label_body"
    /\ IF CanLock(held, "LOADED")
       THEN /\ LOADED' = Labels[label_i]
            /\ lock_pairs' = PairsAfter(held, "LOADED")
            /\ held' = statement_end(lock(held, "LOADED"))
            /\ upc' = AfterLabel(label_i)
            /\ label_i' = NextLabel(label_i)
       ELSE /\ upc' = "deadlocked"
            /\ UNCHANGED <<LOADED, lock_pairs, held, label_i>>
    /\ UNCHANGED <<NAME, frames>>
    /\ UNCHANGED notUi

\* The guards and the position after a statement that locks NAME for the
\* length of the statement, as a button does whose hover text formats
\* NAME.lock().
NameStatement(there) ==
    IF CanLock(held, "NAME")
    THEN /\ lock_pairs' = PairsAfter(held, "NAME")
         /\ held' = statement_end(lock(held, "NAME"))
         /\ upc' = there
    ELSE /\ upc' = "deadlocked"
         /\ UNCHANGED <<lock_pairs, held>>

\* big_icon_button(ui, .., &format!("Delete preset {}", NAME.lock()));
DeleteButton ==
    /\ upc = "delete"
    /\ NameStatement("overwrite")
    /\ UNCHANGED <<LOADED, NAME, label_i, frames>>
    /\ UNCHANGED notUi

\* big_icon_button(ui, .., &format!("Overwrite preset {}", NAME.lock()));
OverwriteButton ==
    /\ upc = "overwrite"
    /\ NameStatement("reset_name")
    /\ UNCHANGED <<LOADED, NAME, label_i, frames>>
    /\ UNCHANGED notUi

\* `&mut *NAME.lock()`, the second argument of with_reset_button.
ResetLockName ==
    /\ LockAt("reset_name", "NAME", "reset_loaded")
    /\ UNCHANGED <<LOADED, NAME, label_i, frames>>
    /\ UNCHANGED notUi

\* `LOADED.lock().clone()`, the third argument.
ResetLockLoaded ==
    /\ LockAt("reset_loaded", "LOADED", "reset_call")
    /\ UNCHANGED <<LOADED, NAME, label_i, frames>>
    /\ UNCHANGED notUi

\* with_reset_button runs with both guards held; the statement ends.
ResetCall ==
    /\ upc = "reset_call"
    /\ NAME' \in EditedNames(NAME, LOADED)
    /\ held' = statement_end(held)
    /\ upc' = "end"
    /\ UNCHANGED <<LOADED, lock_pairs, label_i, frames>>
    /\ UNCHANGED notUi

\* The next frame calls build_view_section again.
NextFrame ==
    /\ upc = "end"
    /\ frames < MaxFrames
    /\ frames' = frames + 1
    /\ upc' = "label_cond"
    /\ label_i' = 1
    /\ UNCHANGED <<LOADED, NAME, held, lock_pairs>>
    /\ UNCHANGED notUi

NextUi ==
    \/ LabelCond
    \/ LabelEval
    \/ LabelBody
    \/ DeleteButton
    \/ OverwriteButton
    \/ ResetLockName
    \/ ResetLockLoaded
    \/ ResetCall
    \/ NextFrame

SpecUi == InitUi /\ [][NextUi]_vars

(***************************************************************************)
(* Properties of iter_autonamed, checked under SpecNames.                  *)
(***************************************************************************)
\* Every user-supplied name of the naming scheme, whether or not its ID is
\* in the order.
UserSuppliedNames == {names[i] : i \in {x \in IDs : names[x] # NONE}}

\* The candidate sequence without the candidates some user-supplied name
\* equals.
FilteredCandidates ==
    SelectSeq(autonames, LAMBDA s : s \notin UserSuppliedNames)

\* Positions of `out` whose ID has no user-supplied name.
AutonamedItems == {k \in DOMAIN out : names[out[k][1]] = NONE}

\* Number of IDs without a user-supplied name among the first n of the order.
UnnamedUpTo(n) ==
    Cardinality({k \in 1 .. n : names[order[k]] = NONE})

\* Number of entries of the map holding v.
Holders(map, v) == Cardinality({i \in IDs : map[i] = v})

\* Number of duplicate reports a map calls for, for the value v: one for
\* every entry holding v beyond the first.
DuplicateReports(map, v) ==
    IF Holders(map, v) >= 2 THEN Holders(map, v) - 1 ELSE 0

AllStrings == UserNames \cup DisplayNames \cup Candidates

\* C1: a name taken from the candidate sequence (the name of a yielded ID
\* that has no user-supplied name) equals no user-supplied name of the
\* naming scheme, including those of IDs outside the order.
C1_AutonameNonCollision ==
    \A k \in AutonamedItems : out[k][2] \notin UserSuppliedNames

\* An ID was autonamed after a candidate was skipped that only collides with
\* the user-supplied name of an ID that is not in the order.
C1_Witness ==
    /\ AutonamedItems # {}
    /\ \E j \in 1 .. autoPos :
          /\ autonames[j] \in UserSuppliedNames
          /\ \A i \in IDs : names[i] = autonames[j] => i \notin Range(order)

\* C2: once the output is fully consumed, two distinct IDs share a name
\* only if a duplicate report for that name reached the warning sink.
C2_NamingUniqueness ==
    pc = "done" =>
        \A j, k \in DOMAIN out :
            (out[j][1] # out[k][1] /\ out[j][2] = out[k][2])
                => out[j][2] \in Range(warnings)

\* C3: every yielded ID with a user-supplied name has that name; the k-th
\* yielded ID without one has the k-th entry of the filtered candidate
\* sequence; and the candidates taken so far are exactly those needed for
\* the IDs without a user-supplied name.
C3_ResolvedNames ==
    /\ \A k \in DOMAIN out :
          LET id == out[k][1]
              nth == Cardinality({m \in AutonamedItems : m <= k})
          IN  IF names[id] # NONE
              THEN out[k][2] = names[id]
              ELSE /\ nth <= Len(FilteredCandidates)
                   /\ out[k][2] = FilteredCandidates[nth]
    /\ pc # "panicked" =>
          Len(SelectSeq(SubSeq(autonames, 1, autoPos),
                        LAMBDA s : s \notin UserSuppliedNames))
              = Cardinality(AutonamedItems)

\* Two IDs without a name, with a named ID between them in the order, were
\* yielded: the first candidate is a user-supplied name and was skipped,
\* and the second ID without a name received the third candidate.
C3_Witness ==
    /\ pc = "done"
    /\ Len(out) = 3
    /\ names[out[1][1]] = NONE
    /\ names[out[2][1]] # NONE
    /\ names[out[3][1]] = NONE
    /\ Len(autonames) = 3
    /\ autonames[1] \in UserSuppliedNames
    /\ out[1][2] = autonames[2]
    /\ out[3][2] = autonames[3]

\* C4: the display name of every yielded ID is its user-supplied display
\* name if it has one, and its resolved name otherwise.
C4_DisplayFallback ==
    \A k \in DOMAIN out :
        out[k][3] = IF displays[out[k][1]] # NONE
                    THEN displays[out[k][1]]
                    ELSE out[k][2]

\* The output holds an autonamed ID without a display name, and an ID whose
\* display name differs from its name.
C4_Witness ==
    /\ \E k \in AutonamedItems : displays[out[k][1]] = NONE
    /\ \E k \in DOMAIN out :
          displays[out[k][1]] # NONE /\ displays[out[k][1]] # out[k][2]

\* C5: once iter_autonamed has returned, the sink holds, for every string,
\* one report per user-supplied name beyond the first that equals it plus
\* one per user-supplied display name beyond the first that equals it;
\* IDs with a user-supplied name are yielded with that name; and name
\* resolution does not panic when only IDs with names are asked for, and
\* ends with one item per ID of the order.
C5_DuplicatesFlagged ==
    /\ pc # "start" =>
          \A v \in AllStrings :
              Count(warnings, v) =
                  DuplicateReports(names, v) + DuplicateReports(displays, v)
    /\ \A k \in DOMAIN out :
          names[out[k][1]] # NONE => out[k][2] = names[out[k][1]]
    /\ (\A k \in DOMAIN order : names[order[k]] # NONE) => pc # "panicked"
    /\ pc = "done" => [k \in DOMAIN out |-> out[k][1]] = order

\* Three IDs share a name, one more ID's display name equals that name
\* without another display name equal to it, and all three IDs were yielded.
C5_Witness ==
    /\ pc = "done"
    /\ \E v \in UserNames :
          /\ Holders(names, v) >= 3
          /\ Holders(displays, v) = 1
          /\ Count(warnings, v) = 2
          /\ Cardinality({k \in DOMAIN out : out[k][2] = v}) >= 3

\* Total number of duplicate reports a call delivers.
RECURSIVE SumReports(_)
SumReports(S) ==
    IF S = {} THEN 0
    ELSE LET v == CHOOSE x \in S : TRUE
         IN  DuplicateReports(names, v) + DuplicateReports(displays, v)
                 + SumReports(S \ {v})

\* C6: before the call nothing was reported, yielded or taken; from the
\* moment iter_autonamed has returned, and so before the first item is
\* yielded or the first candidate is taken and also when no item is ever
\* asked for, the sink holds every duplicate report of the call.
C6_WarningsBeforeItems ==
    /\ pc = "start" => (warnings = <<>> /\ out = <<>> /\ autoPos = 0)
    /\ pc # "start" => Len(warnings) = SumReports(AllStrings)

\* The iterator was returned and nothing was asked of it, and two reports
\* were delivered.
C6_Witness ==
    /\ pc = "iter"
    /\ orderPos = 0
    /\ autoPos = 0
    /\ out = <<>>
    /\ Len(warnings) >= 2

\* C7: consuming the output ends in the panic exactly when the filtered
\* candidate sequence has fewer entries than the order has IDs without a
\* user-supplied name; with at least that many it never panics, and the
\* consumer can always go on until the output ends or the panic occurs.
C7_ExhaustionIffTooFew ==
    /\ pc = "panicked" =>
          Len(FilteredCandidates) < UnnamedUpTo(Len(order))
    /\ pc = "done" =>
          Len(FilteredCandidates) >= UnnamedUpTo(Len(order))
    /\ pc = "iter" => ENABLED IterNext

\* The panic occurred although the candidate sequence is as long as the
\* number of IDs without a name: one candidate was filtered out.
C7_Witness ==
    /\ pc = "panicked"
    /\ Len(autonames) >= UnnamedUpTo(Len(order))
    /\ Len(FilteredCandidates) = UnnamedUpTo(Len(order)) - 1
    /\ Len(FilteredCandidates) >= 1

\* C8 as stated: when the candidates are exhausted, no item has been
\* delivered to the consumer.
C8_NoItemBeforePanic ==
    pc = "panicked" => out = <<>>

\* C8, amended: when the candidates are exhausted, the items delivered are
\* exactly those of the IDs that precede, in the order, the ID without a
\* user-supplied name for which no candidate was left; no item exists for
\* that ID, and nothing more is yielded after the panic.
C8_OnlyPrecedingItemsBeforePanic ==
    pc = "panicked" =>
        /\ orderPos >= 1
        /\ names[order[orderPos]] = NONE
        /\ Len(out) = orderPos - 1
        /\ \A k \in DOMAIN out : out[k][1] = order[k]
        /\ ~ENABLED IterNext

\* The panic occurred after two items had been delivered.
C8_Witness ==
    /\ pc = "panicked"
    /\ Len(out) >= 2

\* The item a run yields for the k-th ID of the order, as the arguments
\* alone determine it.
ItemOf(k) ==
    LET id == order[k]
        name == IF names[id] # NONE
                THEN names[id]
                ELSE FilteredCandidates[UnnamedUpTo(k)]
    IN  <<id, name, IF displays[id] # NONE THEN displays[id] ELSE name>>

\* C21: what a run of iter_autonamed delivers is determined by the naming
\* scheme, the order and the candidate sequence: the items yielded so far
\* are those any run yields for the same IDs, and for every string the
\* number of duplicate reports is the one a run visiting the maps in any
\* other order delivers.
C21_Deterministic ==
    /\ pc # "start" =>
          \A kn \in KeyOrders, kd \in KeyOrders : \A v \in AllStrings :
              Count(warnings, v)
                  = Count(warn_on_duplicates(Values(names, kn))
                              \o warn_on_duplicates(Values(displays, kd)), v)
    /\ Len(out) = (IF pc = "panicked" THEN orderPos - 1 ELSE orderPos)
    /\ out = [k \in 1 .. Len(out) |-> ItemOf(k)]

\* A run delivered two duplicate reports and yielded, in full, an order
\* with an autonamed ID after an ID with a user-supplied name.
C21_Witness ==
    /\ pc = "done"
    /\ Len(warnings) >= 2
    /\ Len(out) = NumIds
    /\ \E k \in AutonamedItems : k > 1 /\ names[out[1][1]] # NONE

\* C23: the items yielded follow the order element by element, none of its
\* IDs dropped, repeated or moved and no other ID yielded; a run that ends
\* yielded one item per element, so that with an order that is a
\* permutation of the IDs every ID has exactly one item.
C23_OneItemPerOrderElement ==
    /\ Len(out) <= Len(order)
    /\ \A k \in DOMAIN out : out[k][1] = order[k]
    /\ pc \in {"iter", "done"} => Len(out) = orderPos
    /\ pc = "done" =>
          /\ Len(out) = Len(order)
          /\ (Len(order) = NumIds /\ Range(order) = IDs)
                => \A i \in IDs :
                       Cardinality({k \in DOMAIN out : out[k][1] = i}) = 1

\* The run ended for an order that lists all IDs from the highest down,
\* with named and autonamed IDs among them.
C23_Witness ==
    /\ pc = "done"
    /\ Len(order) = NumIds
    /\ Range(order) = IDs
    /\ order[1] > order[2]
    /\ AutonamedItems # {}
    /\ \E k \in DOMAIN out : names[out[k][1]] # NONE

(***************************************************************************)
(* Properties of reverse_twist and canonicalize_twist, checked under       *)
(* SpecTwists.                                                             *)
(***************************************************************************)
\* The value of a layer mask as an unsigned integer, in two halves.
HalfBits == LayerMaskBits \div 2

RECURSIVE SumPow2(_)
SumPow2(S) ==
    IF S = {} THEN 0
    ELSE LET i == CHOOSE x \in S : TRUE IN 2 ^ i + SumPow2(S \ {i})

MaskHigh(m) == SumPow2({i - HalfBits : i \in {k \in m : k >= HalfBits}})
MaskLow(m) == SumPow2({k \in m : k < HalfBits})

NumericallySmaller(a, b) ==
    \/ MaskHigh(a) < MaskHigh(b)
    \/ MaskHigh(a) = MaskHigh(b) /\ MaskLow(a) < MaskLow(b)

\* a sorts strictly before b: smaller layer mask, or the same layer mask
\* and the transform allocated earlier (the smaller transform ID).
SortsBefore(a, b) ==
    \/ NumericallySmaller(a.layers, b.layers)
    \/ a.layers = b.layers /\ a.transform < b.transform

\* C9: reverse_twist keeps the layer mask and replaces the transform by its
\* recorded reverse, and reverse_twist of the result is the original twist.
C9_ReverseInvolution ==
    /\ tpc = "reversed" =>
          /\ tres.layers = twist.layers
          /\ tres.transform = transform_info[twist.transform].reverse
    /\ tpc = "reversed_twice" => tres = twist

\* A twist of some layers whose transform is not its own reverse and has an
\* opposite other than its reverse was reversed twice.
C9_Witness ==
    /\ tpc = "reversed_twice"
    /\ twist.layers # {}
    /\ transform_info[twist.transform].reverse # twist.transform
    /\ transform_info[twist.transform].opposite # NoOpposite
    /\ transform_info[twist.transform].opposite
           # transform_info[twist.transform].reverse

MirroredMask(m, n) == {n - 1 - i : i \in m}

\* A twist of the puzzle type that has an opposite: its layer mask names
\* layers of its axis only, the opposite transform turns about an axis with
\* as many layers, and the mirrored mask fits a layer mask.
TwistHasOppositeTwist ==
    LET ti == transform_info[twist.transform]
        n  == axis_layers[ti.axis]
    IN  /\ ti.opposite # NoOpposite
        /\ axis_layers[transform_info[ti.opposite].axis] = n
        /\ twist.layers \subseteq 0 .. (n - 1)
        /\ MirroredMask(twist.layers, n) \subseteq 0 .. (LayerMaskBits - 1)

\* C11: for a twist t with an opposite, the opposite of the opposite
\* transform is t's transform, and canonicalize_twist returns for t what it
\* returns for the opposite transform with the mirrored layer mask.
C11_OppositeSameCanonical ==
    (tpc = "canonical" /\ TwistHasOppositeTwist)
        => LET ti == transform_info[twist.transform]
               t2 == [layers |-> MirroredMask(twist.layers,
                                              axis_layers[ti.axis]),
                      transform |-> ti.opposite]
           IN  /\ transform_info[ti.opposite].opposite = twist.transform
               /\ tres = canonicalize_twist(t2)

\* C12: the reversed layer mask canonicalize_twist computes for an axis with
\* n layers has bit i set exactly when i < n and bit n - 1 - i of the twist's
\* mask is set, and reversing it again gives back a mask that names layers
\* of the axis only.
C12_ReversedMask ==
    (tpc = "canonical" /\ transform_info[twist.transform].opposite # NoOpposite)
        => LET n == axis_layers[transform_info[twist.transform].axis]
               r == reversed_layers(twist.layers, n)
           IN  /\ \A i \in 0 .. (LayerMaskBits - 1) :
                      i \in r <=> (i < n /\ (n - 1 - i) \in twist.layers)
               /\ twist.layers \subseteq 0 .. (n - 1)
                      => reversed_layers(r, n) = twist.layers

\* C13: whenever canonicalize_twist computes the shift amount, layer-mask
\* bit width minus layer count, the amount is not negative and is less than
\* the bit width.
C13_ShiftAmountValid ==
    (/\ tpc \in {"canonical", "canon_panicked"}
     /\ transform_info[twist.transform].opposite # NoOpposite)
        => LET amount == LayerMaskBits
                            - axis_layers[transform_info[twist.transform].axis]
           IN  amount >= 0 /\ amount < LayerMaskBits

\* C24: canonicalize_twist returns a twist whose transform has no opposite
\* as it is, layer mask and transform, and never returns a twist that sorts
\* after the twist it was given.
C24_CanonicalNotGreater ==
    tpc = "canonical" =>
        /\ transform_info[twist.transform].opposite = NoOpposite
              => (tres.layers = twist.layers
                    /\ tres.transform = twist.transform)
        /\ ~SortsBefore(twist, tres)

\* A twist of some layers whose transform has no opposite was canonicalized
\* in a puzzle type where another transform has one.
C24_Witness ==
    /\ tpc = "canonical"
    /\ transform_info[twist.transform].opposite = NoOpposite
    /\ twist.layers # {}
    /\ \E t \in Transforms : transform_info[t].opposite # NoOpposite

(***************************************************************************)
(* Properties of the color scheme repair, checked under SpecColors.        *)
(***************************************************************************)
\* The value stored under key k in the IndexMap s (k is a key of s).
ValueOf(s, k) == s[CHOOSE i \in DOMAIN s : s[i].key = k].value

KeySet(s) == {s[i].key : i \in DOMAIN s}

\* C14: the second of two calls in a row returns false and leaves the scheme
\* as the first call left it, whatever the scheme, the palette and the color
\* list, a list with two colors of one name included.
C14_RepairIdempotent ==
    cpc = "twice" => (changed = FALSE /\ scheme = before.scheme)

\* C15: after a call the keys of the scheme are the names of the color list,
\* in list order.
C15_KeysAreListNames ==
    cpc \in {"once", "twice"} => Keys(scheme) = color_list

\* C16: when the keys did not match the names, every name of the list that
\* was a key holds the reference it held, provided the palette resolves it;
\* every name of the list that was no key holds Unknown; and no key of the
\* scheme is missing from the list.
C16_RebuildKeepsEntries ==
    (cpc \in {"once", "twice"} /\ Keys(before.scheme) # color_list)
        => /\ \A i \in DOMAIN color_list :
                 LET k == color_list[i]
                 IN  /\ k \in KeySet(scheme)
                     /\ (k \in KeySet(before.scheme)
                            /\ has(ValueOf(before.scheme, k)))
                          => ValueOf(scheme, k) = ValueOf(before.scheme, k)
                     /\ k \notin KeySet(before.scheme)
                          => ValueOf(scheme, k) = Unknown
           /\ KeySet(scheme) \subseteq {color_list[i] : i \in DOMAIN color_list}

\* C17: after a call every entry of the scheme holds a reference has()
\* accepts, or Unknown.
C17_EntriesResolvable ==
    cpc \in {"once", "twice"}
        => \A i \in DOMAIN scheme :
               has(scheme[i].value) \/ scheme[i].value = Unknown

\* A rebuild kept an entry the palette resolves and reset to Unknown an entry
\* of the list the palette does not resolve.
C17_Witness ==
    /\ cpc = "once"
    /\ Keys(before.scheme) # color_list
    /\ \E i \in DOMAIN scheme :
          /\ scheme[i].value # Unknown
          /\ has(scheme[i].value)
    /\ \E i \in DOMAIN scheme :
          /\ scheme[i].key \in KeySet(before.scheme)
          /\ ValueOf(before.scheme, scheme[i].key) # Unknown
          /\ scheme[i].value = Unknown

\* C18: the value returned is true exactly when the scheme differs from the
\* scheme before the call, and the palette and the color list are as they
\* were.
C18_ChangedIffDiffers ==
    cpc \in {"once", "twice"}
        => /\ changed <=> (scheme # before.scheme)
           /\ palette = before.palette
           /\ color_list = before.color_list

(***************************************************************************)
(* Properties of the puzzle type construction, checked under SpecTypes.    *)
(***************************************************************************)
\* C20: a call of create_puzzle_type_from_shapes that returned an error
\* handed out no handle and left no allocation behind; every puzzle type an
\* owning handle exists for has a `this` that resolves to itself; and arc()
\* never panics and returns a handle to the puzzle type it was called on.
C20_AtomicSelfConsistent ==
    /\ \A i \in DOMAIN results :
          ~results[i].ok => results[i].handle = NoObject
    /\ {o \in TypeIds : types[o].live # "free"}
          = {results[i].handle : i \in {j \in DOMAIN results : results[j].ok}}
    /\ \A o \in TypeIds :
          types[o].live = "alive"
              => (types[o].strong >= 1 /\ types[o].this = o)
    /\ arc_ret.outcome # "panicked"
    /\ arc_ret.outcome = "ok" => arc_ret.handle = arc_ret.of

\* One call failed, another returned a puzzle type, arc() was called on it
\* and the handle it returned is held next to another one.
C20_Witness ==
    /\ \E i \in DOMAIN results : ~results[i].ok
    /\ arc_ret.outcome = "ok"
    /\ types[arc_ret.handle].live = "alive"
    /\ types[arc_ret.handle].strong >= 2

(***************************************************************************)
(* Properties of the builders' locking, checked under SpecBuilders.        *)
(***************************************************************************)
\* C19: a mutating call made on a builder while a mutation is in progress on
\* that builder ends in the contention error; no builder has two mutations
\* in progress; and a lock is held exactly while a mutation is in progress on
\* its builder, so no call is left waiting for a lock its own thread holds.
C19_ReentryIsContention ==
    /\ blast.reentrant => blast.outcome = "contention"
    /\ \A i, j \in DOMAIN bstack : bstack[i] = bstack[j] => i = j
    /\ \A b \in Builders : locked[b] <=> b \in Range(bstack)

\* Inside a mutation of one builder a mutation of the other one was entered,
\* and a mutating call made from there on the first builder got the
\* contention error, no item having been stored by it.
C19_Witness ==
    /\ Len(bstack) = 2
    /\ blast.reentrant
    /\ blast.outcome = "contention"
    /\ blast.builder = bstack[1]
    /\ bitems[blast.builder] = 0

(***************************************************************************)
(* Properties of the layers of an axis, checked under SpecLayers.          *)
(***************************************************************************)
\* Whether the layers L lie innermost first, each top boundary the bottom
\* boundary of the next layer, and only the last layer without a top.
Continuous(L) ==
    /\ \A i, j \in DOMAIN L : i < j => L[i].bottom < L[j].bottom
    /\ \A i \in DOMAIN L :
          IF i = Len(L)
          THEN L[i].top = NoManifold
          ELSE L[i].top = L[i + 1].bottom

\* C22: the layers of a finalized axis are ordered innermost first, the top
\* boundary of each is the bottom boundary of the next, and the top boundary
\* is absent for the last layer and only for it; a layer stack that is not
\* so is rejected with an error and no axis is made of it.
C22_LayersContinuous ==
    /\ lpc = "built" => (built_layers = layer_stack /\ Continuous(built_layers))
    /\ (lpc # "building" /\ ~Continuous(layer_stack))
          => (lpc = "rejected" /\ built_layers = <<>>)

\* An axis of three layers was finalized.
C22_Witness ==
    /\ lpc = "built"
    /\ Len(built_layers) = MaxLayers
    /\ built_layers[1].top # NoManifold

(***************************************************************************)
(* Properties of the palette lookups, checked under SpecPalette.           *)
(***************************************************************************)
\* C25: has() answers true exactly when get() returns a color, for every
\* reference and palette: for a gradient only when its name is a known
\* gradient, never for the unknown reference; and the palette is as it was
\* before the two calls.
C25_HasIffGet ==
    query.asked =>
        /\ query.has <=> (query.get # NONE)
        /\ query.color.kind = "Unknown" => ~query.has
        /\ palette = query.palette

\* has() and get() were asked for a gradient no DefaultColorGradient names,
\* of a palette that holds colors and a color set.
C25_Witness ==
    /\ query.asked
    /\ query.color.kind = "Gradient"
    /\ ~query.has
    /\ DOMAIN palette.builtin_colors # {}
    /\ DOMAIN palette.builtin_color_sets # {}

(***************************************************************************)
(* Properties of ColorSchemePreferences, checked under SpecPrefs.          *)
(***************************************************************************)
\* C26: after get_mut(color_system) there is an entry under the color
\* system's id; a missing entry is created with the color system's built-in
\* schemes, no user scheme, and the default scheme as last loaded; an
\* existing entry keeps its last-loaded name and its user schemes except
\* those named like a built-in one, and gets the color system's built-in
\* schemes; the entries of the other ids are as before.  get changes nothing
\* and returns the entry or none.
C26_GetMutEnsuresEntry ==
    /\ pref_call.op = "get_mut" =>
          LET id == pref_call.cs.id
              old == pref_call.before[id]
              new == scheme_prefs[id]
          IN  /\ new.present
              /\ pref_call.ret = new
              /\ new.builtin = pref_call.cs.schemes
              /\ ~old.present =>
                    /\ new.user = {}
                    /\ new.last_loaded = pref_call.cs.default_scheme
              /\ old.present =>
                    /\ new.user = old.user \ pref_call.cs.schemes
                    /\ new.last_loaded = old.last_loaded
              /\ \A other \in SysIds \ {id} :
                    scheme_prefs[other] = pref_call.before[other]
    /\ pref_call.op = "get" =>
          /\ scheme_prefs = pref_call.before
          /\ pref_call.ret = pref_call.before[pref_call.cs.id]

\* get_mut on an existing entry whose user scheme is named like a scheme
\* the color system now has built in.
C26_Witness ==
    /\ pref_call.op = "get_mut"
    /\ pref_call.before[pref_call.cs.id].present
    /\ pref_call.before[pref_call.cs.id].user \cap pref_call.cs.schemes # {}
    /\ pref_call.before[pref_call.cs.id].last_loaded
            # pref_call.cs.default_scheme

(***************************************************************************)
(* Properties of LuaNdim, checked under SpecNdim and SpecNdimFair.         *)
(***************************************************************************)
\* C27: try_from(value) is Ok exactly when 1 <= value <= MAX_NDIM, the
\* LuaNdim it returns holds value itself, and every other integer gets the
\* error "out of range".
C27_TryFromRange ==
    tried.called =>
        IF tried.value >= 1 /\ tried.value <= MAX_NDIM
        THEN tried.result = Ok(tried.value)
        ELSE tried.result = Err("out of range")

\* try_from was given MAX_NDIM, and was given an integer above the u8 range
\* whose low byte lies in 1..=MAX_NDIM.
C27_Witness ==
    /\ tried.called
    /\ \/ tried.value = MAX_NDIM /\ tried.result.kind = "Ok"
       \/ /\ tried.value > 255
          /\ as_u8(tried.value) >= 1
          /\ as_u8(tried.value) <= MAX_NDIM
          /\ tried.result.kind = "Err"

\* The bound on a run's calls: get_global is entered at most once, from_lua
\* at most twice, at most three calls are nested, and a finished run has a
\* result, which is an error when no non-nil value was there to convert.
NdimBounded ==
    /\ ncalls.get_global <= 1
    /\ ncalls.from_lua <= 2
    /\ ncalls.depth <= 3
    /\ Len(nstack) <= 3
    /\ npc = "done" =>
          /\ nstack = <<>>
          /\ nret # NoResult
          /\ (ncalls.get_global = 1 /\ global_ndim.kind = "Nil")
                => nret = Err("unknown number of dimensions")

\* C28: resolving the number of dimensions terminates: every call of
\* from_lua or get_global that was entered returns, get_global having been
\* entered at most once and from_lua at most twice on the way; with a nil
\* argument and a nil global the result is an error.
C28_Terminates ==
    /\ []NdimBounded
    /\ (npc = "running") ~> (npc = "done")

\* from_lua(nil) finished with an error under a nil global, having called
\* get_global.
C28_Witness ==
    /\ npc = "done"
    /\ lua_value.kind = "Nil"
    /\ global_ndim.kind = "Nil"
    /\ ncalls.from_lua = 1
    /\ ncalls.get_global = 1
    /\ nret.kind = "Err"

(***************************************************************************)
(* Properties of ViewPreferences::interpolate, checked under SpecViews.    *)
(***************************************************************************)
\* The presets that agree with v on the field f and differ from it in at
\* most one other boolean field.
OtherFieldFlipped(v, f) ==
    {[v EXCEPT ![g] = ~@] : g \in BoolFields \ {f}}

\* C29: a.interpolate(a, t) has the boolean settings and the downscale_rate
\* of a; and each boolean setting of a.interpolate(b, t) is the same for
\* every a and b that have that same setting (here: a or b with one other
\* boolean setting flipped).
C29_DiscreteFieldsIndependent ==
    vpc = "done" =>
        /\ vb = va => vres = va
        /\ \A f \in BoolFields :
              /\ \A a2 \in OtherFieldFlipped(va, f) :
                    interpolate(a2, vb, vt)[f] = vres[f]
              /\ \A b2 \in OtherFieldFlipped(vb, f) :
                    interpolate(va, b2, vt)[f] = vres[f]

\* The same with clip_4d_behind_camera left out.
OtherDiscreteFieldsIndependent ==
    vpc = "done" =>
        /\ vb = va =>
              [vres EXCEPT !.clip_4d_behind_camera = va.clip_4d_behind_camera]
                  = va
        /\ \A f \in BoolFields \ {"clip_4d_behind_camera"} :
              /\ \A a2 \in OtherFieldFlipped(va, f) :
                    interpolate(a2, vb, vt)[f] = vres[f]
              /\ \A b2 \in OtherFieldFlipped(vb, f) :
                    interpolate(va, b2, vt)[f] = vres[f]

(***************************************************************************)
(* Properties of build_view_section, checked under SpecUi.                 *)
(***************************************************************************)
\* C30: build_view_section never calls lock() on LOADED or NAME while it
\* holds that mutex, never holds one mutex twice, and never takes the two
\* mutexes in both orders; a finished frame holds neither.
C30_NoSelfDeadlock ==
    /\ upc # "deadlocked"
    /\ \A j, k \in DOMAIN held : j # k => held[j] # held[k]
    /\ \A p \in lock_pairs : p[1] # p[2] /\ <<p[2], p[1]>> \notin lock_pairs
    /\ upc = "end" => held = <<>>

\* A label was clicked, so LOADED was locked again in the body of the `if`,
\* and with_reset_button now runs with NAME and LOADED both held.
C30_Witness ==
    /\ upc = "reset_call"
    /\ held = <<"NAME", "LOADED">>
    /\ LOADED # "Fallback"
    /\ <<"NAME", "LOADED">> \in lock_pairs

====
